---- MODULE Spec2Model ----
(***************************************************************************)
(* Model of aidan-harding/lwc-classes:                                     *)
(*   - DatatableSorter (sorting.js 72-103), the composed sort helper that  *)
(*     reads and republishes parent[dataFieldName];                        *)
(*   - DemoApp (sorting.js 27-60), the reference datatable sort;           *)
(*   - protectThis (protectThis.js 11-20), which rebinds the methods of an *)
(*     instance to the instance.                                           *)
(* JavaScript values are modelled as far as the code touches them: arrays  *)
(* live in a heap and are named by reference, records are functions from   *)
(* attribute names to numbers, function values are closures kept as data.  *)
(***************************************************************************)
EXTENDS Integers, Sequences, FiniteSets

(* ------------------------------ bounds -------------------------------- *)

\* Longest generated input array.
MaxLen == 3

\* Generated records take their age from 1..MaxAge.
MaxAge == 2

\* Instances that protectThis is applied to and called on.
NumInstances == 2

\* protectThis is applied to one instance at most MaxWraps times.
MaxWraps == 2

VARIABLES
    \* ---- DatatableSorter and its owner (sorting.js 72-103)
    heap,                  \* array reference -> the array's elements, in order
    parent,                \* the owner: slot name -> value
    dataFieldName,         \* DatatableSorter.dataFieldName
    defaultSortDirection,  \* DatatableSorter.defaultSortDirection
    sortDirection,         \* DatatableSorter.sortDirection
    sortedBy,              \* DatatableSorter.sortedBy
    \* ---- DemoApp, the reference implementation (sorting.js 27-60)
    demoData,              \* DemoApp.data (the elements, in order)
    demoDefaultSortDirection,
    demoSortDirection,
    demoSortedBy,
    \* ---- what the caller of sortData observed
    outcome,               \* how the last sortData call ended
    lastEvent,             \* event.detail of the last sortData call
    lastSorted,            \* event.detail of the last sortData call that returned
    repeated               \* the last call repeated the event of the call before it

sorterVars == <<heap, parent, dataFieldName, defaultSortDirection, sortDirection,
                sortedBy, demoData, demoDefaultSortDirection, demoSortDirection,
                demoSortedBy, outcome, lastEvent, lastSorted, repeated>>

VARIABLES
    \* ---- objects and their methods (protectThis.js 11-20)
    protos,                \* prototype -> its own properties: name -> function
    own,                   \* instance -> its own function-valued properties
    protected,             \* the instances protectThis has been applied to
    op,                    \* the last operation: protectThis(object) or a call
    activation             \* what the last call ran: function, this, arguments

bindVars == <<protos, own, protected, op, activation>>

vars == <<sorterVars, bindVars>>

(* --------------------------- JavaScript values ------------------------ *)

\* The value undefined: a slot or attribute that is not there.
Undefined == [t |-> "undefined", v |-> 0]

\* null, the initial value of DatatableSorter.sortedBy.
Null == "null"

\* A number.
Num(n) == [t |-> "number", v |-> n]

\* A reference to the array stored at heap[r].
ArrayRef(r) == [t |-> "array", v |-> r]

\* o[name] for an object kept as a function from its property names.
Get(o, name) == IF name \in DOMAIN o THEN o[name] ELSE Undefined

\* x[field] for a record x, whose attributes are numbers.
Attr(x, field) == IF field \in DOMAIN x THEN Num(x[field]) ELSE Undefined

\* a > b: false whenever an operand is undefined (it converts to NaN).
GreaterThan(a, b) == a.t = "number" /\ b.t = "number" /\ a.v > b.v

\* A boolean used as a number.
ToNumber(b) == IF b THEN 1 ELSE 0

\* Whether [...v] can iterate v; it throws a TypeError otherwise.
IsIterable(v) == v.t = "array"

(* ------------------------------ the data ------------------------------ *)

\* const data of sorting.js, with its numeric attributes.
data ==
    << [id |-> 1, age |-> 40], [id |-> 2, age |-> 35],
       [id |-> 3, age |-> 50], [id |-> 4, age |-> 37] >>

\* Generated arrays: up to MaxLen records, numbered by id as const data
\* is, with any ages.
GeneratedArrays ==
    UNION { { [i \in 1..n |-> [id |-> i, age |-> ages[i]]] :
                ages \in [1..n -> 1..MaxAge] } : n \in 0..MaxLen }

\* The arrays the owner may hold when the sorter is constructed.
Inputs == {data} \cup GeneratedArrays

\* fieldName of a sort event: an attribute of the records, or one they lack.
FieldNames == {"id", "age", "phone"}

\* event.detail of the datatable's sort event.
SortEvents == [fieldName : FieldNames, sortDirection : {"asc", "desc"}]

\* No event yet.
NoEvent == [fieldName |-> "none", sortDirection |-> "none"]

(* ----------------------- Array.prototype.sort ------------------------- *)

\* A two-way comparison: a tie counts as a < b.
DatatableSorter_compareTwoWay(field, reverse, a, b) ==
    LET av == Attr(a, field)
        bv == Attr(b, field)
    IN  reverse * (IF GreaterThan(av, bv) THEN 1 ELSE -1)

\* >= in the place of the first >: a tie counts as a > b.
DatatableSorter_compareOrEqual(field, reverse, a, b) ==
    LET av == Attr(a, field)
        bv == Attr(b, field)
    IN  reverse * (ToNumber(~GreaterThan(bv, av)) - ToNumber(GreaterThan(bv, av)))

\* The function DatatableSorter.sortBy returns, applied to (a, b).
DatatableSorter_compare(field, reverse, a, b) ==
    LET av == Attr(a, field)
        bv == Attr(b, field)
    IN  reverse * (ToNumber(GreaterThan(av, bv)) - ToNumber(GreaterThan(bv, av)))

\* The function DemoApp.sortBy returns, applied to (a, b); the only call
\* passes no primer, so key(x) is x[field].
DemoApp_compare(field, reverse, a, b) ==
    LET key(x) == Attr(x, field)
        av == key(a)
        bv == key(b)
    IN  reverse * (ToNumber(GreaterThan(av, bv)) - ToNumber(GreaterThan(bv, av)))

\* DatatableSorter.sortBy(field, reverse): the comparator, a closure over
\* field and reverse.
sortBy(field, reverse) ==
    [fn |-> "DatatableSorter.sortBy", field |-> field, reverse |-> reverse]

\* DemoApp.sortBy(field, reverse): the reference comparator.
DemoApp_sortBy(field, reverse) ==
    [fn |-> "DemoApp.sortBy", field |-> field, reverse |-> reverse]

\* comparefn(a, b) for a comparator closure.
Call(comparefn, a, b) ==
    IF comparefn.fn = "DatatableSorter.sortBy"
    THEN DatatableSorter_compare(comparefn.field, comparefn.reverse, a, b)
    ELSE DemoApp_compare(comparefn.field, comparefn.reverse, a, b)

RECURSIVE Insert(_, _, _)
\* x inserted into the sorted s: in front of the elements that comparefn
\* puts after it, behind those it ties with.
Insert(s, x, comparefn) ==
    IF s = <<>> \/ Call(comparefn, s[Len(s)], x) <= 0
    THEN Append(s, x)
    ELSE Append(Insert(SubSeq(s, 1, Len(s) - 1), x, comparefn), s[Len(s)])

RECURSIVE ArraySort(_, _)
\* array.sort(comparefn): the stable sort of the language (ES2019), as the
\* elements of the array after the call.
ArraySort(array, comparefn) ==
    IF array = <<>>
    THEN <<>>
    ELSE Insert(ArraySort(SubSeq(array, 1, Len(array) - 1), comparefn),
                array[Len(array)], comparefn)

(* --------------------------- DatatableSorter -------------------------- *)

\* The reference of const data, which the module keeps for good.
DataRef == 1

\* The arrays still referenced: const data and the owner's slots.
Live == {DataRef} \cup {parent[n].v : n \in {m \in DOMAIN parent : parent[m].t = "array"}}

\* The array aliased instead of copied.
CloneAlias(source) == source.v

\* [...source]: the reference of the new array the spread allocates.
Clone(source) == CHOOSE r \in 1..(Cardinality(DOMAIN heap) + 1) : r \notin DOMAIN heap

\* The direction factor sortData hands to sortBy.
Reverse(direction) == IF direction = "asc" THEN -1 ELSE 1

\* The direction factor onHandleSort hands to sortBy.
DemoApp_Reverse(direction) == IF direction = "asc" THEN 1 ELSE -1

\* Line 100 left out.
StateAfterSortStaleDirection(event) ==
    [sortDirection |-> sortDirection, sortedBy |-> event.fieldName]

\* Line 101 left out.
StateAfterSortStaleField(event) ==
    [sortDirection |-> event.sortDirection, sortedBy |-> sortedBy]

\* The sorter's fields after lines 100-101.
StateAfterSort(event) ==
    [sortDirection |-> event.sortDirection, sortedBy |-> event.fieldName]

\* The assignments of lines 100-101 made before the spread.
StateAfterThrowAssigned(event) ==
    [sortDirection |-> event.sortDirection, sortedBy |-> event.fieldName]

\* The sorter's fields when the spread of line 96 throws: lines 98-101 have
\* not run.
StateAfterThrow(event) ==
    [sortDirection |-> sortDirection, sortedBy |-> sortedBy]

\* new DatatableSorter(parent, dataFieldName), with the field initialisers.
DatatableSorter_constructor(input, slot) ==
    /\ heap = [r \in {DataRef} |-> input]
    /\ parent = [n \in {"data"} |-> ArrayRef(DataRef)]
    /\ dataFieldName = slot
    /\ defaultSortDirection = "asc"
    /\ sortDirection = "asc"
    /\ sortedBy = Null
    /\ outcome = "none"
    /\ lastEvent = NoEvent
    /\ lastSorted = NoEvent
    /\ repeated = FALSE

\* DatatableSorter.sortData(event).
sortData(event) ==
    LET fieldName == event.fieldName
        direction == event.sortDirection
        source    == Get(parent, dataFieldName)
    IN  /\ lastEvent' = event
        /\ repeated' = (event = lastEvent)
        /\ UNCHANGED <<dataFieldName, defaultSortDirection>>
        /\ IF ~IsIterable(source)
           THEN /\ outcome' = "TypeError"
                /\ sortDirection' = StateAfterThrow(event).sortDirection
                /\ sortedBy' = StateAfterThrow(event).sortedBy
                /\ UNCHANGED <<heap, parent, lastSorted>>
           ELSE LET cloneData == Clone(source)
                    sorted == ArraySort(heap[source.v],
                                        sortBy(fieldName, Reverse(direction)))
                IN  /\ heap' = [r \in Live \cup {cloneData} |->
                                  IF r = cloneData THEN sorted ELSE heap[r]]
                    /\ parent' = [n \in DOMAIN parent \cup {dataFieldName} |->
                                    IF n = dataFieldName THEN ArrayRef(cloneData)
                                    ELSE parent[n]]
                    /\ sortDirection' = StateAfterSort(event).sortDirection
                    /\ sortedBy' = StateAfterSort(event).sortedBy
                    /\ outcome' = "returned"
                    /\ lastSorted' = event

(* ------------------------------- DemoApp ------------------------------ *)

\* new DemoApp(): the field initialisers; sortedBy is declared unset.
DemoApp_constructor(input) ==
    /\ demoData = input
    /\ demoDefaultSortDirection = "asc"
    /\ demoSortDirection = "asc"
    /\ demoSortedBy = "undefined"

\* DemoApp.onHandleSort(event).
onHandleSort(event) ==
    LET fieldName == event.fieldName
        direction == event.sortDirection
    IN  /\ demoData' = ArraySort(demoData,
                                 DemoApp_sortBy(fieldName, DemoApp_Reverse(direction)))
        /\ demoSortDirection' = direction
        /\ demoSortedBy' = fieldName
        /\ UNCHANGED demoDefaultSortDirection

(* ------------------------------ protectThis --------------------------- *)

\* The instances: objects whose prototype is DatatableSorter.prototype.
Instances == 1..NumInstances

\* A reference to instance i.
Object(i) == [t |-> "object", v |-> i]

\* The LightningElement whose template holds the handler: the context the
\* framework calls a handler with.
Component == [t |-> "component", v |-> 0]

\* The contexts a function reference may be called with.
Contexts == {Undefined, Component} \cup {Object(i) : i \in Instances}

\* The argument lists a call passes.
Arguments == {<< >>, <<"a">>, <<"a", "b">>}

\* A method as its class defines it.
Method(owner, name) == [kind |-> "method", owner |-> owner, name |-> name]

\* function() { return initialFunctionDefinition.apply(object, arguments); }
\* as the closure over object and initialFunctionDefinition.
Wrapper(object, initialFunctionDefinition) ==
    [kind |-> "wrapper", object |-> object, inner |-> initialFunctionDefinition]

\* typeof v === 'function'.
IsFunction(v) == v # Undefined

\* Object.getPrototypeOf(object) for an instance: every instance is a
\* DatatableSorter.
GetPrototypeOf(object) == "DatatableSorter.prototype"

\* The prototype of a prototype: the class extends nothing, so its
\* prototype chain goes on to Object.prototype and ends there.
Extends(p) == IF p = "DatatableSorter.prototype" THEN "Object.prototype" ELSE "null"

\* The prototypes as the classes define them: DatatableSorter with its
\* constructor and two methods, over Object.prototype.
ClassPrototypes ==
    [p \in {"DatatableSorter.prototype", "Object.prototype"} |->
        IF p = "DatatableSorter.prototype"
        THEN [n \in {"constructor", "sortBy", "sortData"} |-> Method(p, n)]
        ELSE [n \in {"constructor", "valueOf", "hasOwnProperty"} |-> Method(p, n)]]

\* Object.getOwnPropertyNames(o) for a prototype o.
GetOwnPropertyNames(o) == DOMAIN protos[o]

\* The property names in use.
Names == UNION {DOMAIN ClassPrototypes[p] : p \in DOMAIN ClassPrototypes}

RECURSIVE LookupChain(_, _, _)
\* p[name] for a prototype p: its own property, else that of the next
\* prototype along the chain, else undefined.
LookupChain(protosT, p, name) ==
    IF p = "null" THEN Undefined
    ELSE IF name \in DOMAIN protosT[p] THEN protosT[p][name]
    ELSE LookupChain(protosT, Extends(p), name)

\* object[name] in the tables (ownT, protosT): the instance's own property,
\* else the first along its prototype chain.
LookupIn(ownT, protosT, object, name) ==
    IF name \in DOMAIN ownT[object] THEN ownT[object][name]
    ELSE LookupChain(protosT, GetPrototypeOf(object), name)

\* object[name] now.
Lookup(object, name) == LookupIn(own, protos, object, name)

RECURSIVE Invoke(_, _, _)
\* f.apply(context, arguments): the method that runs in the end, with its
\* this and its arguments, whose effects and result are the call's.
Invoke(f, context, arguments) ==
    IF f.kind = "wrapper"
    THEN Invoke(f.inner, Object(f.object), arguments)
    ELSE [fn |-> f, this |-> context, args |-> arguments]

RECURSIVE Depth(_)
\* The wrappers around a method.
Depth(f) == IF f.kind = "wrapper" THEN 1 + Depth(f.inner) ELSE 0

\* An operation on an instance, with what a call was given.
Operation(name, object, property, context, arguments) ==
    [name |-> name, object |-> object, property |-> property,
     context |-> context, arguments |-> arguments]

\* The names protectThis(object) rewrites: the own property names of the
\* prototype whose value on the object is a function.
FunctionNames(object) ==
    {n \in GetOwnPropertyNames(GetPrototypeOf(object)) : IsFunction(Lookup(object, n))}

\* The wrappers stored on the prototype instead of on the instance.
protectThis_onPrototype(object) ==
    LET p == GetPrototypeOf(object)
    IN  /\ \A n \in FunctionNames(object) : Depth(Lookup(object, n)) < MaxWraps
        /\ protos' = [protos EXCEPT ![p] =
               [n \in DOMAIN protos[p] |->
                   IF n \in FunctionNames(object)
                   THEN Wrapper(object, Lookup(object, n))
                   ELSE protos[p][n]]]
        /\ protected' = protected \cup {object}
        /\ op' = Operation("protectThis", object, "", Undefined, << >>)
        /\ UNCHANGED <<own, activation>>

\* protectThis(object).
protectThis(object) ==
    /\ \A n \in FunctionNames(object) : Depth(Lookup(object, n)) < MaxWraps
    /\ own' = [own EXCEPT ![object] =
           [n \in DOMAIN own[object] \cup FunctionNames(object) |->
               IF n \in FunctionNames(object)
               THEN Wrapper(object, Lookup(object, n))
               ELSE own[object][n]]]
    /\ protected' = protected \cup {object}
    /\ op' = Operation("protectThis", object, "", Undefined, << >>)
    /\ UNCHANGED <<protos, activation>>

\* const f = object[name]; f.apply(context, arguments): a method taken as
\* a bare function reference and called with some context or none.
CallDetached(object, name, context, arguments) ==
    /\ IsFunction(Lookup(object, name))
    /\ activation' = Invoke(Lookup(object, name), context, arguments)
    /\ op' = Operation("call", object, name, context, arguments)
    /\ UNCHANGED <<protos, own, protected>>

\* No call yet.
NoActivation == [fn |-> Undefined, this |-> Undefined, args |-> << >>]

\* The instances as allocated, before any protectThis.
BindInit ==
    /\ protos = ClassPrototypes
    /\ own = [i \in Instances |-> << >>]
    /\ protected = {}
    /\ op = Operation("none", 0, "", Undefined, << >>)
    /\ activation = NoActivation

(* ---------------------------- specification --------------------------- *)

\* Both components constructed over the same data.
Init ==
    \E input \in Inputs, slot \in {"data", "rows"} :
        /\ DatatableSorter_constructor(input, slot)
        /\ DemoApp_constructor(input)
        /\ BindInit

\* One sort event of the datatable, handled by the sorter and by the
\* reference implementation.
HandleSort ==
    \E event \in SortEvents :
        sortData(event) /\ onHandleSort(event) /\ UNCHANGED bindVars

Next == HandleSort

Spec == Init /\ [][Next]_vars
\* The objects alone: the sorter and the reference stay as constructed
\* over const data.
InitBind ==
    /\ BindInit
    /\ DatatableSorter_constructor(data, "data")
    /\ DemoApp_constructor(data)

\* protectThis applied to an instance.
Protect ==
    \E object \in Instances : protectThis(object) /\ UNCHANGED sorterVars

\* A method of an instance called through a bare reference.
Detached ==
    \E object \in Instances, name \in Names, context \in Contexts,
       arguments \in Arguments :
        CallDetached(object, name, context, arguments) /\ UNCHANGED sorterVars

NextBind == Protect \/ Detached

SpecBind == InitBind /\ [][NextBind]_vars

(* ------------------------ DatatableSorter: claims --------------------- *)

\* The elements of the array published in parent[dataFieldName].
Published(h, o) == h[Get(o, dataFieldName).v]

\* Every record of s has the attribute field.
HasField(s, field) == \A i \in 1..Len(s) : field \in DOMAIN s[i]

\* s is in non-decreasing order of field.
NonDecreasing(s, field) ==
    \A i, j \in 1..Len(s) : i < j => s[i][field] <= s[j][field]

\* s is in non-increasing order of field.
NonIncreasing(s, field) ==
    \A i, j \in 1..Len(s) : i < j => s[i][field] >= s[j][field]

\* The place of record x in s.
Pos(s, x) == CHOOSE k \in 1..Len(s) : s[k] = x

\* s holds two records that tie on field and two that differ on it.
TiesAndDifferences(s, field) ==
    /\ \E i, j \in 1..Len(s) : i # j /\ Attr(s[i], field) = Attr(s[j], field)
    /\ \E i, j \in 1..Len(s) : GreaterThan(Attr(s[i], field), Attr(s[j], field))

\* C1: after sortData with 'asc' the published sequence is in non-decreasing
\* order of the sorted field, after sortData with 'desc' in non-increasing
\* order.
C1_DirectionCorrect ==
    (outcome = "returned" /\ HasField(Published(heap, parent), lastSorted.fieldName))
    => IF lastSorted.sortDirection = "asc"
       THEN NonDecreasing(Published(heap, parent), lastSorted.fieldName)
       ELSE NonIncreasing(Published(heap, parent), lastSorted.fieldName)

\* What sortData does instead: 'asc' publishes non-increasing order and
\* 'desc' non-decreasing order.
SortDataInverted ==
    (outcome = "returned" /\ HasField(Published(heap, parent), lastSorted.fieldName))
    => IF lastSorted.sortDirection = "asc"
       THEN NonIncreasing(Published(heap, parent), lastSorted.fieldName)
       ELSE NonDecreasing(Published(heap, parent), lastSorted.fieldName)

\* C2: sortData is stable in both directions: the output holds the records
\* of the input, and two records that tie on the sorted field keep their
\* input order.
C2_Stable ==
    [][outcome' = "returned" =>
        LET in    == Published(heap, parent)
            out   == Published(heap', parent')
            field == lastEvent'.fieldName
        IN  /\ Len(out) = Len(in)
            /\ \A i \in 1..Len(in) : \E k \in 1..Len(out) : out[k] = in[i]
            /\ \A i, j \in 1..Len(in) :
                   (i < j /\ Attr(in[i], field) = Attr(in[j], field))
                   => Pos(out, in[i]) < Pos(out, in[j])]_vars

\* C2 witness: a descending sort by age has returned a sequence with ties
\* and with differing ages, which is not the order of const data.
C2_Witness ==
    /\ outcome = "returned"
    /\ lastSorted = [fieldName |-> "age", sortDirection |-> "desc"]
    /\ TiesAndDifferences(Published(heap, parent), "age")
    /\ Published(heap, parent) # heap[DataRef]

\* C3: sortData leaves the array that was in parent[dataFieldName] as it
\* was and publishes a newly created one.
C3_NonDestructive ==
    [][outcome' = "returned" =>
        LET old == Get(parent, dataFieldName).v
            new == Get(parent', dataFieldName').v
        IN  /\ old \in DOMAIN heap'
            /\ heap'[old] = heap[old]
            /\ new # old
            /\ new \notin DOMAIN heap]_vars

\* C3 witness: a sort has returned, the published order differs from the
\* original array, which is still in its order of construction.
C3_Witness ==
    /\ outcome = "returned"
    /\ heap[DataRef] = data
    /\ Published(heap, parent) # heap[DataRef]
    /\ Get(parent, dataFieldName).v # DataRef

\* C4 as claimed: the exposed state is that of the last sortData call,
\* whether or not that call returned.
C4_ReflectsLastCall ==
    /\ defaultSortDirection = "asc"
    /\ lastEvent = NoEvent => (sortDirection = "asc" /\ sortedBy = Null)
    /\ lastEvent # NoEvent =>
           (sortedBy = lastEvent.fieldName /\ sortDirection = lastEvent.sortDirection)

\* C4, amended: the exposed state is that of the last sortData call that
\* returned, and the initial 'asc', 'asc', null before any has.
C4_ReflectsLastReturnedCall ==
    /\ defaultSortDirection = "asc"
    /\ lastSorted = NoEvent => (sortDirection = "asc" /\ sortedBy = Null)
    /\ lastSorted # NoEvent =>
           (sortedBy = lastSorted.fieldName /\ sortDirection = lastSorted.sortDirection)

\* C4 witness: a 'desc' sort by id has returned after an earlier call.
C4_Witness ==
    /\ outcome = "returned"
    /\ lastSorted = [fieldName |-> "id", sortDirection |-> "desc"]
    /\ sortDirection = "desc"
    /\ Cardinality(DOMAIN heap) >= 3

\* C6: a sortData call that repeats the event of the call before it leaves
\* the published order as that call left it.
C6_Idempotent ==
    [][(outcome' = "returned" /\ repeated') =>
        Published(heap', parent') = Published(heap, parent)]_vars

\* C6 witness: a sort by age was repeated on a sequence with ties and with
\* differing ages.
C6_Witness ==
    /\ outcome = "returned"
    /\ repeated
    /\ lastSorted.fieldName = "age"
    /\ TiesAndDifferences(Published(heap, parent), "age")

\* C7: after every event the sorter and the reference DemoApp publish the
\* same order, the same sortDirection and the same sortedBy.
C7_SameAsReference ==
    (dataFieldName = "data" /\ lastEvent # NoEvent) =>
        /\ Published(heap, parent) = demoData
        /\ sortDirection = demoSortDirection
        /\ sortedBy = demoSortedBy

\* C9: sortedBy is null exactly while no sortData call has returned, and
\* once it is not null it never is again.
C9_UnsortedOnlyBeforeFirstSort ==
    /\ []((sortedBy = Null) <=> (lastSorted = NoEvent))
    /\ [][sortedBy # Null => sortedBy' # Null]_vars

\* C9 witness: the sorter has left the Unsorted state and sorted again.
C9_Witness ==
    /\ sortedBy # Null
    /\ lastSorted # NoEvent
    /\ repeated

\* C10: a sortData call that throws on a slot that is not iterable leaves
\* sortDirection, sortedBy and parent[dataFieldName] as they were.
C10_ThrowChangesNothing ==
    [][outcome' = "TypeError" =>
        /\ sortDirection' = sortDirection
        /\ sortedBy' = sortedBy
        /\ Get(parent', dataFieldName') = Get(parent, dataFieldName)
        /\ parent' = parent
        /\ heap' = heap]_vars

\* C10 witness: a 'desc' call has thrown and the sorter is as constructed.
C10_Witness ==
    /\ outcome = "TypeError"
    /\ lastEvent.sortDirection = "desc"
    /\ sortDirection = "asc"
    /\ sortedBy = Null

(* --------------------------- protectThis: claims ---------------------- *)

\* The method object[name] resolves to in the classes as defined.
OriginalMethod(object, name) ==
    LookupChain(ClassPrototypes, GetPrototypeOf(object), name)

\* The last operation called a member of a protected instance through a
\* bare reference, and the call ran the original method with the instance
\* as its this and the arguments of the call, as a direct call does.
RanOnInstance ==
    /\ activation = [fn |-> OriginalMethod(op.object, op.property),
                     this |-> Object(op.object), args |-> op.arguments]
    /\ activation = Invoke(Lookup(op.object, op.property), Object(op.object),
                           op.arguments)

\* C5: every callable member reachable through the prototype of a protected
\* instance, taken as a bare reference and called with any context or
\* none, runs the original method with the instance as its context and the
\* same arguments, as instance.method(...) does.
C5_ContextPreserved ==
    (op.name = "call" /\ op.object \in protected) => RanOnInstance

\* What protectThis does give: the same for the members that are own
\* properties of the instance's prototype; the members inherited from
\* further up the chain keep the context of the call.
ProtectsOwnMethodsOfPrototype ==
    (/\ op.name = "call"
     /\ op.object \in protected
     /\ op.property \in DOMAIN ClassPrototypes[GetPrototypeOf(op.object)])
    => RanOnInstance

\* C8: protectThis(instance) leaves the prototypes as they were, and every
\* other instance with the members and the behaviour it had.
C8_OnlyOwnMemberTable ==
    [][op'.name = "protectThis" =>
        /\ protos' = protos
        /\ \A j \in Instances \ {op'.object} :
               /\ own'[j] = own[j]
               /\ \A n \in Names :
                      /\ LookupIn(own', protos', j, n) = Lookup(j, n)
                      /\ IsFunction(Lookup(j, n)) =>
                             \A c \in Contexts, a \in Arguments :
                                 Invoke(LookupIn(own', protos', j, n), c, a)
                                     = Invoke(Lookup(j, n), c, a)]_vars

\* C8 witness: protectThis has just been applied to an instance while
\* another one was already protected.
C8_Witness ==
    /\ op.name = "protectThis"
    /\ \E j \in protected : j # op.object
    /\ DOMAIN own[op.object] = {"constructor", "sortBy", "sortData"}
====
